---- MODULE Spec2Model ----
(***************************************************************************)
(* Virtual-memory page replacement simulator (src/main.py).                *)
(*                                                                         *)
(* The model follows run_simulations: for every trace file, frame count    *)
(* and policy it builds a MemorySimulator, loads the trace, replays the    *)
(* references one at a time and appends get_stats() to all_results.        *)
(*                                                                         *)
(* Python values are modelled as follows.                                  *)
(*   dict / OrderedDict : sequence of <<key, value>> in insertion order    *)
(*   deque / list       : sequence                                         *)
(*   str that is parsed or case-folded : tuple of one-character strings    *)
(*   None / int         : <<>> / <<n>>                                     *)
(*   raised exception   : field "raised" of the simulator record           *)
(***************************************************************************)
EXTENDS Integers, Sequences, FiniteSets, TLC

----------------------------------------------------------------------------
(* Bounds of the model.                                                    *)

\* longest trace (in lines) of the single-run specification
MaxLen == 4
\* longest trace of the batch specification that compares the policies
BatchMaxLen == 5
\* largest frame count tried
MaxFrames == 2
\* longest trace of the specification with lines of every kind
ParseMaxLen == 3
\* longest trace of the batch that repeats a configuration
RepeatMaxLen == 3
\* longest trace of the batches of two traces
TracesMaxLen == 2

----------------------------------------------------------------------------
(* Python dictionaries, in insertion order.                                *)

DictKeys(d) == {d[i][1] : i \in 1..Len(d)}

DictHas(d, k) == \E i \in 1..Len(d) : d[i][1] = k

DictIdx(d, k) == CHOOSE i \in 1..Len(d) : d[i][1] = k

DictGet(d, k) == d[DictIdx(d, k)][2]

\* d[k] = v : an existing key keeps its place, a new key goes last
DictSet(d, k, v) ==
    IF DictHas(d, k) THEN [d EXCEPT ![DictIdx(d, k)] = <<k, v>>]
                     ELSE Append(d, <<k, v>>)

\* del d[k]
DictDel(d, k) == SelectSeq(d, LAMBDA e : e[1] # k)

\* OrderedDict.move_to_end(k)
MoveToEnd(d, k) == Append(DictDel(d, k), <<k, DictGet(d, k)>>)

None == <<>>

Some(n) == <<n>>

----------------------------------------------------------------------------
(* Strings that the program transforms.                                    *)

LowerLetters == <<"a","b","c","d","e","f","g","h","i","j","k","l","m",
                  "n","o","p","q","r","s","t","u","v","w","x","y","z">>

UpperLetters == <<"A","B","C","D","E","F","G","H","I","J","K","L","M",
                  "N","O","P","Q","R","S","T","U","V","W","X","Y","Z">>

ToLower ==
    [c \in {UpperLetters[j] : j \in 1..26} |->
        LowerLetters[CHOOSE j \in 1..26 : UpperLetters[j] = c]]

ToUpper ==
    [c \in {LowerLetters[j] : j \in 1..26} |->
        UpperLetters[CHOOSE j \in 1..26 : LowerLetters[j] = c]]

\* str.lower()
Lower(str) ==
    [i \in 1..Len(str) |-> IF str[i] \in DOMAIN ToLower THEN ToLower[str[i]] ELSE str[i]]

\* str.upper()
Upper(str) ==
    [i \in 1..Len(str) |-> IF str[i] \in DOMAIN ToUpper THEN ToUpper[str[i]] ELSE str[i]]

HexDigits == <<"0","1","2","3","4","5","6","7","8","9","a","b","c","d","e","f">>

\* value of a hexadecimal digit, in either case
HexValue ==
    [c \in {HexDigits[j] : j \in 1..16} \cup {Upper(HexDigits)[j] : j \in 1..16} |->
        (CHOOSE j \in 1..16 : HexDigits[j] = c \/ Upper(HexDigits)[j] = c) - 1]

\* int(tok, 16) reads an optional sign, an optional 0x or 0X and then
\* hexadecimal digits (underscores between digits are not modelled: no
\* token tried holds one)
Unsigned(tok) == IF Len(tok) > 0 /\ tok[1] \in {"+", "-"} THEN Tail(tok) ELSE tok

Unprefixed(tok) ==
    IF Len(tok) >= 2 /\ tok[1] = "0" /\ tok[2] \in {"x", "X"}
    THEN SubSeq(tok, 3, Len(tok)) ELSE tok

\* int(tok, 16) succeeds
IsHex(tok) ==
    LET digits == Unprefixed(Unsigned(tok))
    IN  Len(digits) > 0 /\ \A i \in 1..Len(digits) : digits[i] \in DOMAIN HexValue

\* value of a string of hexadecimal digits
RECURSIVE HexMagnitude(_)
HexMagnitude(digits) ==
    IF Len(digits) = 0 THEN 0
    ELSE 16 * HexMagnitude(SubSeq(digits, 1, Len(digits) - 1)) + HexValue[digits[Len(digits)]]

\* int(tok, 16)
HexNumber(tok) ==
    LET magnitude == HexMagnitude(Unprefixed(Unsigned(tok)))
    IN  IF Len(tok) > 0 /\ tok[1] = "-" THEN 0 - magnitude ELSE magnitude

\* address >> 12
PageOf(address) == address \div 4096

fifo == <<"f","i","f","o">>

lru == <<"l","r","u">>

opt == <<"o","p","t">>

----------------------------------------------------------------------------
(* class MemorySimulator                                                   *)

\* __init__ ; start_time (wall clock) is left out.  The policy structures
\* that __init__ does not create are never read by the code; they are
\* modelled as empty.
MemorySimulator(frame_count, replacement_policy) ==
    [ frame_count           |-> frame_count,
      replacement_policy    |-> Lower(replacement_policy),
      page_table            |-> <<>>,
      frame_table           |-> <<>>,
      dirty_pages           |-> {},
      page_faults           |-> 0,
      disk_writes           |-> 0,
      replacements          |-> 0,
      hits                  |-> 0,
      total_accesses        |-> 0,
      operation_stats       |-> <<<<"R", 0>>, <<"W", 0>>>>,
      page_access_frequency |-> <<>>,
      fifo_queue            |-> <<>>,
      lru_cache             |-> <<>>,
      opt_future_refs       |-> <<>>,
      next_ref              |-> <<>>,
      trace_file            |-> "",
      raised                |-> "" ]

\* heapq.heappop(h) returns the smallest element of h and removes it
HeapTop(h) == CHOOSE x \in {h[i] : i \in 1..Len(h)} : \A i \in 1..Len(h) : x <= h[i]

HeapPop(h) == SelectSeq(h, LAMBDA x : x # HeapTop(h))

\* page_positions after the first n references (lines 64-68): for every
\* page, in first-seen order, the 0-based positions where it is referenced
RECURSIVE PagePositions(_, _)
PagePositions(references, n) ==
    IF n = 0 THEN <<>>
    ELSE LET d        == PagePositions(references, n - 1)
             page_num == references[n][1]
             d1       == IF DictHas(d, page_num) THEN d ELSE DictSet(d, page_num, <<>>)
         IN  DictSet(d1, page_num, Append(DictGet(d1, page_num), n - 1))

\* _preprocess_opt_references
PreprocessOptReferences(s, references) ==
    LET page_positions == PagePositions(references, Len(references))
        future == [i \in 1..Len(page_positions) |->
                     IF Len(page_positions[i][2]) > 0
                     THEN <<page_positions[i][1], HeapPop(page_positions[i][2])>>
                     ELSE page_positions[i]]
        seeded == SelectSeq(page_positions, LAMBDA e : Len(e[2]) > 0)
    IN  [s EXCEPT !.opt_future_refs = future,
                  !.next_ref = [i \in 1..Len(seeded) |->
                                  <<seeded[i][1], Some(HeapTop(seeded[i][2]))>>]]

\* The loop of load_trace_file over the first n lines of the file.  A line
\* is the list line.strip().split(): parts[1] is the address token and
\* parts[2] the operation token.  int(token, 16) is modelled for tokens made
\* of hexadecimal digits; any other token raises ValueError and the line is
\* skipped.
\* variant of Accepts: a line with more than two tokens is accepted too
AcceptsTwoOrMore(parts) == Len(parts) >= 2 /\ IsHex(parts[1])

\* lines 40-42 and 49: the line has two tokens and int() does not raise
Accepts(parts) == Len(parts) = 2 /\ IsHex(parts[1])

RECURSIVE LoadLines(_, _, _)
LoadLines(freq, lines, n) ==
    IF n = 0 THEN [references |-> <<>>, page_access_frequency |-> freq]
    ELSE LET before == LoadLines(freq, lines, n - 1)
             parts  == lines[n]
         IN  IF Accepts(parts)
             THEN LET page_num == PageOf(HexNumber(parts[1]))
                      f        == before.page_access_frequency
                      count    == IF DictHas(f, page_num) THEN DictGet(f, page_num) ELSE 0
                  IN  [references |-> Append(before.references, <<page_num, parts[2]>>),
                       page_access_frequency |-> DictSet(f, page_num, count + 1)]
             ELSE before

\* load_trace_file: file is [exists, lines]; the result is the simulator
\* and the list it returns.  A missing file ends the process (sys.exit).
LoadTraceFile(s, file) ==
    IF ~file.exists
    THEN [sim |-> [s EXCEPT !.raised = "SystemExit"], references |-> <<>>]
    ELSE LET loaded == LoadLines(s.page_access_frequency, file.lines, Len(file.lines))
             s1     == [s EXCEPT !.page_access_frequency = loaded.page_access_frequency]
         IN  [sim |-> IF s1.replacement_policy = opt
                      THEN PreprocessOptReferences(s1, loaded.references)
                      ELSE s1,
              references |-> loaded.references]

\* variant of UpdateOptNextRef: next_ref is never advanced
UpdateOptNextRefSkipped(s, page_num, current_pos) == s

\* _update_opt_next_ref
UpdateOptNextRef(s, page_num, current_pos) ==
    IF DictHas(s.next_ref, page_num) /\ DictGet(s.next_ref, page_num) = Some(current_pos)
    THEN IF DictHas(s.opt_future_refs, page_num)
            /\ Len(DictGet(s.opt_future_refs, page_num)) > 0
         THEN LET heap == DictGet(s.opt_future_refs, page_num)
              IN  [s EXCEPT !.next_ref = DictSet(s.next_ref, page_num, Some(HeapTop(heap))),
                            !.opt_future_refs = DictSet(s.opt_future_refs, page_num, HeapPop(heap))]
         ELSE [s EXCEPT !.next_ref = DictSet(s.next_ref, page_num, None)]
    ELSE s

\* variant of SelectVictimFifo: deque.pop() takes the newest page
SelectVictimFifoNewest(s) ==
    IF Len(s.fifo_queue) = 0
    THEN [sim |-> [s EXCEPT !.raised = "IndexError"], frame_num |-> 0]
    ELSE LET victim_page == s.fifo_queue[Len(s.fifo_queue)]
             s1          == [s EXCEPT !.fifo_queue = SubSeq(@, 1, Len(@) - 1)]
         IN  IF DictHas(s1.page_table, victim_page)
             THEN [sim |-> s1, frame_num |-> DictGet(s1.page_table, victim_page)]
             ELSE [sim |-> [s1 EXCEPT !.raised = "KeyError"], frame_num |-> 0]

\* FIFO branch of _select_victim_frame (lines 158-160): deque.popleft()
\* raises IndexError on an empty deque
SelectVictimFifo(s) ==
    IF Len(s.fifo_queue) = 0
    THEN [sim |-> [s EXCEPT !.raised = "IndexError"], frame_num |-> 0]
    ELSE LET victim_page == Head(s.fifo_queue)
             s1          == [s EXCEPT !.fifo_queue = Tail(s.fifo_queue)]
         IN  IF DictHas(s1.page_table, victim_page)
             THEN [sim |-> s1, frame_num |-> DictGet(s1.page_table, victim_page)]
             ELSE [sim |-> [s1 EXCEPT !.raised = "KeyError"], frame_num |-> 0]

\* LRU branch (lines 162-164): OrderedDict.popitem(last=False) raises
\* KeyError on an empty dictionary
SelectVictimLru(s) ==
    IF Len(s.lru_cache) = 0
    THEN [sim |-> [s EXCEPT !.raised = "KeyError"], frame_num |-> 0]
    ELSE LET victim_page == Head(s.lru_cache)[1]
             s1          == [s EXCEPT !.lru_cache = Tail(s.lru_cache)]
         IN  IF DictHas(s1.page_table, victim_page)
             THEN [sim |-> s1, frame_num |-> DictGet(s1.page_table, victim_page)]
             ELSE [sim |-> [s1 EXCEPT !.raised = "KeyError"], frame_num |-> 0]

\* The loop of the OPT branch (lines 170-182) from the i-th entry of
\* page_table on; victim_page is None or Some(page)
RECURSIVE OptScan(_, _, _, _)
OptScan(s, i, victim_page, farthest_next_use) ==
    IF i > Len(s.page_table)
    THEN IF victim_page # None THEN DictGet(s.page_table, victim_page[1]) ELSE 0
    ELSE LET page     == s.page_table[i][1]
             next_use == IF DictHas(s.next_ref, page) THEN DictGet(s.next_ref, page) ELSE None
         IN  IF next_use = None
             THEN DictGet(s.page_table, page)
             ELSE IF next_use[1] > farthest_next_use
                  THEN OptScan(s, i + 1, Some(page), next_use[1])
                  ELSE OptScan(s, i + 1, victim_page, farthest_next_use)

\* variant of SelectVictimOpt: the page in frame 0 is the victim
SelectVictimOptFirstFrame(s) == [sim |-> s, frame_num |-> 0]

\* OPT branch (lines 166-182)
SelectVictimOpt(s) == [sim |-> s, frame_num |-> OptScan(s, 1, None, -1)]

\* _select_victim_frame
SelectVictimFrame(s, current_pos) ==
    IF s.replacement_policy = fifo THEN SelectVictimFifo(s)
    ELSE IF s.replacement_policy = lru THEN SelectVictimLru(s)
    ELSE IF s.replacement_policy = opt THEN SelectVictimOpt(s)
    ELSE [sim |-> s, frame_num |-> 0]

\* variant of FrameAvailable: <= in place of <
FrameAvailableOffByOne(s) == Len(s.page_table) <= s.frame_count

\* line 117: a frame is still free
FrameAvailable(s) == Len(s.page_table) < s.frame_count

\* variant of RemoveVictim: the victim stays in page_table
RemoveVictimKeepsEntry(s, frame_num) ==
    IF ~DictHas(s.frame_table, frame_num)
    THEN [s EXCEPT !.raised = "KeyError"]
    ELSE LET victim      == DictGet(s.frame_table, frame_num)
             victim_page == victim.page_num
         IN  [s EXCEPT !.disk_writes = IF victim.dirty THEN @ + 1 ELSE @,
                       !.dirty_pages = @ \ {victim_page},
                       !.lru_cache = IF s.replacement_policy = lru
                                     THEN DictDel(@, victim_page) ELSE @]

\* variant of RemoveVictim: the victim stays in dirty_pages
RemoveVictimKeepsDirty(s, frame_num) ==
    IF ~DictHas(s.frame_table, frame_num)
    THEN [s EXCEPT !.raised = "KeyError"]
    ELSE LET victim      == DictGet(s.frame_table, frame_num)
             victim_page == victim.page_num
         IN  IF ~DictHas(s.page_table, victim_page)
             THEN [s EXCEPT !.disk_writes = IF victim.dirty THEN @ + 1 ELSE @,
                            !.raised = "KeyError"]
             ELSE [s EXCEPT !.disk_writes = IF victim.dirty THEN @ + 1 ELSE @,
                            !.page_table = DictDel(@, victim_page),
                            !.lru_cache = IF s.replacement_policy = lru
                                          THEN DictDel(@, victim_page) ELSE @]

\* lines 124-137: flush and forget the page held by frame_num;
\* frame_table[frame_num] raises KeyError when the frame was never filled
RemoveVictim(s, frame_num) ==
    IF ~DictHas(s.frame_table, frame_num)
    THEN [s EXCEPT !.raised = "KeyError"]
    ELSE LET victim      == DictGet(s.frame_table, frame_num)
             victim_page == victim.page_num
         IN  IF ~DictHas(s.page_table, victim_page)
             THEN [s EXCEPT !.disk_writes = IF victim.dirty THEN @ + 1 ELSE @,
                            !.raised = "KeyError"]
             ELSE [s EXCEPT !.disk_writes = IF victim.dirty THEN @ + 1 ELSE @,
                            !.page_table = DictDel(@, victim_page),
                            !.dirty_pages = @ \ {victim_page},
                            !.lru_cache = IF s.replacement_policy = lru
                                          THEN DictDel(@, victim_page) ELSE @]

\* variant of InstallPage: the frame of a page loaded by a write is clean
InstallPageClean(s, page_num, operation, frame_num) ==
    [s EXCEPT !.page_table = DictSet(@, page_num, frame_num),
              !.frame_table = DictSet(@, frame_num,
                                [page_num |-> page_num, dirty |-> FALSE]),
              !.fifo_queue = IF s.replacement_policy = fifo
                             THEN Append(@, page_num) ELSE @,
              !.lru_cache = IF s.replacement_policy = lru
                            THEN DictSet(@, page_num, frame_num) ELSE @]

\* lines 140-154: put page_num into frame_num
InstallPage(s, page_num, operation, frame_num) ==
    [s EXCEPT !.page_table = DictSet(@, page_num, frame_num),
              !.frame_table = DictSet(@, frame_num,
                                [page_num |-> page_num, dirty |-> (operation = "W")]),
              !.dirty_pages = IF operation = "W" THEN @ \cup {page_num} ELSE @,
              !.fifo_queue = IF s.replacement_policy = fifo
                             THEN Append(@, page_num) ELSE @,
              !.lru_cache = IF s.replacement_policy = lru
                            THEN DictSet(@, page_num, frame_num) ELSE @]

\* _handle_page_fault
HandlePageFault(s, page_num, operation, current_pos) ==
    IF FrameAvailable(s)
    THEN InstallPage(s, page_num, operation, Len(s.page_table))
    ELSE LET sel == SelectVictimFrame([s EXCEPT !.replacements = @ + 1], current_pos)
         IN  IF sel.sim.raised # "" THEN sel.sim
             ELSE LET s2 == RemoveVictim(sel.sim, sel.frame_num)
                  IN  IF s2.raised # "" THEN s2
                      ELSE InstallPage(s2, page_num, operation, sel.frame_num)

\* variant of PageHit: the hit is counted inside the LRU branch only
PageHitCountedUnderLru(s, page_num, operation) ==
    LET frame_num == DictGet(s.page_table, page_num)
        s1 == [s EXCEPT !.hits = IF s.replacement_policy = lru THEN @ + 1 ELSE @,
                        !.lru_cache = IF s.replacement_policy = lru
                                      THEN MoveToEnd(@, page_num) ELSE @]
    IN  IF operation = "W"
        THEN [s1 EXCEPT !.frame_table =
                            DictSet(@, frame_num,
                                    [DictGet(s1.frame_table, frame_num) EXCEPT !.dirty = TRUE]),
                        !.dirty_pages = @ \cup {page_num}]
        ELSE s1

\* variant of PageHit: a hit does not move the page in lru_cache
PageHitWithoutTouch(s, page_num, operation) ==
    LET frame_num == DictGet(s.page_table, page_num)
        s1 == [s EXCEPT !.hits = @ + 1]
    IN  IF operation = "W"
        THEN [s1 EXCEPT !.frame_table =
                            DictSet(@, frame_num,
                                    [DictGet(s1.frame_table, frame_num) EXCEPT !.dirty = TRUE]),
                        !.dirty_pages = @ \cup {page_num}]
        ELSE s1

\* lines 91-102: the reference hits a resident page
PageHit(s, page_num, operation) ==
    LET frame_num == DictGet(s.page_table, page_num)
        s1 == [s EXCEPT !.hits = @ + 1,
                        !.lru_cache = IF s.replacement_policy = lru
                                      THEN MoveToEnd(@, page_num) ELSE @]
    IN  IF operation = "W"
        THEN [s1 EXCEPT !.frame_table =
                            DictSet(@, frame_num,
                                    [DictGet(s1.frame_table, frame_num) EXCEPT !.dirty = TRUE]),
                        !.dirty_pages = @ \cup {page_num}]
        ELSE s1

\* One iteration of the loop of simulate (lines 83-105).
\* operation_stats[operation] raises KeyError for a key other than R, W.
SimulateReference(s, reference, current_pos) ==
    LET page_num  == reference[1]
        operation == reference[2]
        s1 == [s EXCEPT !.total_accesses = @ + 1]
    IN  IF ~DictHas(s1.operation_stats, operation)
        THEN [s1 EXCEPT !.raised = "KeyError"]
        ELSE LET s2 == [s1 EXCEPT !.operation_stats =
                            DictSet(@, operation, DictGet(s1.operation_stats, operation) + 1)]
                 s3 == IF s2.replacement_policy = opt
                       THEN UpdateOptNextRef(s2, page_num, current_pos)
                       ELSE s2
             IN  IF DictHas(s3.page_table, page_num)
                 THEN PageHit(s3, page_num, operation)
                 ELSE HandlePageFault([s3 EXCEPT !.page_faults = @ + 1],
                                      page_num, operation, current_pos)

\* [:20] of top_pages
TopPages == 20

\* base memory access time and page fault service time of eat, in ns
MemoryAccessNs == 100

PageFaultNs == 10000000

\* sorted(items, key=count, reverse=True): descending and stable
RECURSIVE SortedByCount(_)
SortedByCount(items) ==
    IF Len(items) = 0 THEN <<>>
    ELSE LET sorted == SortedByCount(SubSeq(items, 1, Len(items) - 1))
             e      == items[Len(items)]
             k      == Cardinality({i \in 1..Len(sorted) : sorted[i][2] >= e[2]})
         IN  SubSeq(sorted, 1, k) \o <<e>> \o SubSeq(sorted, k + 1, Len(sorted))

\* get_stats.  {} is the empty function.  The rates are kept as exact
\* fractions [num, den] of the float the code computes; execution_time
\* (wall clock) is left out.
GetStats(s) ==
    IF s.total_accesses = 0 THEN <<>>
    ELSE [ total_accesses |-> s.total_accesses,
           hits           |-> s.hits,
           page_faults    |-> s.page_faults,
           replacements   |-> s.replacements,
           disk_writes    |-> s.disk_writes,
           hit_rate       |-> [num |-> s.hits * 100, den |-> s.total_accesses],
           fault_rate     |-> [num |-> s.page_faults * 100, den |-> s.total_accesses],
           eat            |-> [num |-> MemoryAccessNs * s.total_accesses
                                          + s.page_faults * PageFaultNs,
                               den |-> s.total_accesses],
           reads          |-> DictGet(s.operation_stats, "R"),
           writes         |-> DictGet(s.operation_stats, "W"),
           frames         |-> s.frame_count,
           policy         |-> Upper(s.replacement_policy),
           trace_file     |-> s.trace_file,
           top_pages      |-> LET sorted == SortedByCount(s.page_access_frequency)
                              IN  SubSeq(sorted, 1, IF Len(sorted) < TopPages
                                                    THEN Len(sorted) ELSE TopPages) ]

----------------------------------------------------------------------------
(* print_final_report                                                      *)

\* the runs of results before the first one without statistics
RowsBeforeKeyError(results) ==
    LET empty == {i \in 1..Len(results) : DOMAIN results[i] = {}}
    IN  IF empty = {} THEN results
        ELSE SubSeq(results, 1, (CHOOSE i \in empty : \A j \in empty : i <= j) - 1)

\* lines 263-267: one line of the table
TableRow(res) ==
    <<"row", [ trace_file     |-> res.trace_file,
               frames         |-> res.frames,
               policy         |-> res.policy,
               total_accesses |-> res.total_accesses,
               hits           |-> res.hits,
               page_faults    |-> res.page_faults,
               replacements   |-> res.replacements,
               disk_writes    |-> res.disk_writes,
               hit_rate       |-> res.hit_rate,
               eat            |-> res.eat ]>>

\* sum(seq)
RECURSIVE Sum(_)
Sum(seq) == IF Len(seq) = 0 THEN 0 ELSE seq[1] + Sum(Tail(seq))

\* lines 275-280: combined_accesses after the loops.  A page is a key from
\* its first (result, entry) on, so the keys are in the order of their
\* first occurrence, and its value is the sum of its counts.
CombinedAccesses(results) ==
    LET occurrences(page) ==
            {<<i, k>> \in (1..Len(results)) \X (1..TopPages) :
                k <= Len(results[i].top_pages) /\ results[i].top_pages[k][1] = page}
        first(page) ==
            CHOOSE o \in occurrences(page) :
                \A q \in occurrences(page) : o[1] < q[1] \/ (o[1] = q[1] /\ o[2] <= q[2])
        keys == UNION {DictKeys(results[i].top_pages) : i \in 1..Len(results)}
        rank(page) ==
            Cardinality({q \in keys : first(q)[1] < first(page)[1]
                                        \/ (first(q)[1] = first(page)[1]
                                            /\ first(q)[2] <= first(page)[2])})
        count(page) ==
            Sum([i \in 1..Len(results) |->
                    IF DictHas(results[i].top_pages, page)
                    THEN DictGet(results[i].top_pages, page) ELSE 0])
    IN  [r \in 1..Cardinality(keys) |->
            LET page == CHOOSE q \in keys : rank(q) = r
            IN  <<page, count(page)>>]

\* lines 295-311: the policies in the order of their first result, each
\* with the lists of its runs
RECURSIVE PolicyOrder(_)
PolicyOrder(results) ==
    IF Len(results) = 0 THEN <<>>
    ELSE LET before == PolicyOrder(SubSeq(results, 1, Len(results) - 1))
             policy == results[Len(results)].policy
         IN  IF \E i \in 1..Len(before) : before[i] = policy THEN before
             ELSE Append(before, policy)

\* lines 313-321: one line per policy.  The averages of the integer lists
\* are exact fractions; the float lists are printed as the list itself.
PolicyRow(results, policy) ==
    LET runs == SelectSeq(results, LAMBDA r : r.policy = policy)
    IN  <<"policy", [ policy     |-> policy,
                      hit_rates  |-> [i \in 1..Len(runs) |-> runs[i].hit_rate],
                      eats       |-> [i \in 1..Len(runs) |-> runs[i].eat],
                      avg_faults |-> [num |-> Sum([i \in 1..Len(runs) |-> runs[i].page_faults]),
                                      den |-> Len(runs)],
                      avg_writes |-> [num |-> Sum([i \in 1..Len(runs) |-> runs[i].disk_writes]),
                                      den |-> Len(runs)] ]>>

\* print_final_report(results) for a non-empty list: what it prints and the
\* exception it raises.  res['trace_file'] of a run whose statistics are {}
\* raises KeyError after the rows before it have been printed.
PrintFinalReport(results) ==
    LET rows     == RowsBeforeKeyError(results)
        table    == [i \in 1..Len(rows) |-> TableRow(rows[i])]
        total_all_accesses == Sum([i \in 1..Len(results) |-> results[i].total_accesses])
        sorted   == SortedByCount(CombinedAccesses(results))
        top_combined == SubSeq(sorted, 1, IF Len(sorted) < TopPages
                                          THEN Len(sorted) ELSE TopPages)
        pages    == [i \in 1..Len(top_combined) |->
                        <<"page", top_combined[i][1], top_combined[i][2],
                          [num |-> top_combined[i][2] * 100, den |-> total_all_accesses]>>]
        order    == PolicyOrder(results)
        compared == [i \in 1..Len(order) |-> PolicyRow(results, order[i])]
    IN  IF Len(rows) < Len(results)
        THEN [printed |-> table, raised |-> "KeyError"]
        ELSE [printed |-> table \o pages \o compared, raised |-> ""]

----------------------------------------------------------------------------
(* run_simulations and main                                                *)

VARIABLES
    trace_files,    \* argument: list of file names
    frame_counts,   \* argument: list of frame counts
    policies,       \* argument: list of policy selectors
    fs,             \* the files: name -> [exists, lines]
    ti, fi, pi,     \* 1-based positions of the three nested loops
    pc,             \* "open", "run", "simulate", "returned", "done" or "exited"
    simulator,      \* the MemorySimulator of the current run
    references,     \* the list load_trace_file returned
    current_pos,    \* position of simulate in references (0-based)
    all_results,    \* list of the statistics of the finished runs
    printed,        \* the messages and report lines written to stdout
    loads,          \* history: <<position, page>> of every load of the run
    evictions,      \* history: [pos, victim, resident] of every eviction
    finished        \* history: the simulator of every finished run

vars == <<trace_files, frame_counts, policies, fs, ti, fi, pi, pc, simulator,
          references, current_pos, all_results, printed, loads, evictions,
          finished>>

args == <<trace_files, frame_counts, policies, fs>>

\* position of the loops after the body for (ti, fi, pi) has run
Advance(t, f, p) ==
    IF p < Len(policies) THEN [ti |-> t, fi |-> f, pi |-> p + 1, pc |-> "run"]
    ELSE IF f < Len(frame_counts) THEN [ti |-> t, fi |-> f + 1, pi |-> 1, pc |-> "run"]
    ELSE IF t < Len(trace_files) THEN [ti |-> t + 1, fi |-> 1, pi |-> 1, pc |-> "open"]
    ELSE [ti |-> t, fi |-> f, pi |-> p, pc |-> "returned"]

\* lines 219-229: the driver opens the trace to count its lines; a missing
\* file is reported and the loop continues with the next trace
OpenTrace ==
    /\ pc = "open"
    /\ LET next == IF fs[trace_files[ti]].exists
                      /\ Len(frame_counts) > 0 /\ Len(policies) > 0
                   THEN [ti |-> ti, fi |-> 1, pi |-> 1, pc |-> "run"]
                   ELSE Advance(ti, Len(frame_counts), Len(policies))
       IN  /\ ti' = next.ti
           /\ fi' = next.fi
           /\ pi' = next.pi
           /\ pc' = next.pc
    /\ printed' = printed \o <<<<"Procesando archivo", trace_files[ti]>>>>
                    \o (IF fs[trace_files[ti]].exists THEN <<>>
                        ELSE <<<<"Error: Archivo no encontrado">>>>)
    /\ UNCHANGED <<args, simulator, references, current_pos, all_results,
                   loads, evictions, finished>>

\* The file system is shared with other processes: the trace is removed
\* between the driver's open (line 224) and the open of load_trace_file
\* (line 37).  A removal at any other moment is seen by the program at one
\* of these two opens and is covered by a file that is missing from the
\* start or removed before the next run.
RemoveTrace ==
    /\ pc = "run"
    /\ fs[trace_files[ti]].exists
    /\ fs' = [fs EXCEPT ![trace_files[ti]] = [exists |-> FALSE, lines |-> <<>>]]
    /\ UNCHANGED <<trace_files, frame_counts, policies, ti, fi, pi, pc,
                   simulator, references, current_pos, all_results, printed,
                   loads, evictions, finished>>

\* variant of StartRun: the counters of the previous simulator are carried
\* over to the new one
StartRunKeepsCounters ==
    /\ pc = "run"
    /\ LET created == [MemorySimulator(frame_counts[fi], policies[pi])
                          EXCEPT !.trace_file = trace_files[ti],
                                 !.total_accesses = simulator.total_accesses,
                                 !.hits = simulator.hits,
                                 !.page_faults = simulator.page_faults]
           loaded  == LoadTraceFile(created, fs[trace_files[ti]])
       IN  /\ simulator' = loaded.sim
           /\ references' = loaded.references
           /\ pc' = IF loaded.sim.raised # "" THEN "exited" ELSE "simulate"
           /\ printed' = IF loaded.sim.raised # ""
                          THEN Append(printed, <<"Error: No se pudo encontrar el archivo",
                                                 trace_files[ti]>>)
                          ELSE printed
    /\ current_pos' = 0
    /\ loads' = <<>>
    /\ evictions' = <<>>
    /\ UNCHANGED <<args, ti, fi, pi, all_results, finished>>

\* lines 233-238: build the simulator and load the trace; sys.exit(1) of
\* load_trace_file is not an Exception and ends the process
StartRun ==
    /\ pc = "run"
    /\ LET created == [MemorySimulator(frame_counts[fi], policies[pi])
                          EXCEPT !.trace_file = trace_files[ti]]
           loaded  == LoadTraceFile(created, fs[trace_files[ti]])
       IN  /\ simulator' = loaded.sim
           /\ references' = loaded.references
           /\ pc' = IF loaded.sim.raised # "" THEN "exited" ELSE "simulate"
           /\ printed' = IF loaded.sim.raised # ""
                          THEN Append(printed, <<"Error: No se pudo encontrar el archivo",
                                                 trace_files[ti]>>)
                          ELSE printed
    /\ current_pos' = 0
    /\ loads' = <<>>
    /\ evictions' = <<>>
    /\ UNCHANGED <<args, ti, fi, pi, all_results, finished>>

\* line 240: simulate processes the reference at current_pos; an exception
\* leaves run_simulations and main, is reported at lines 352-354 and the
\* process exits
SimulateStep ==
    /\ pc = "simulate"
    /\ current_pos < Len(references)
    /\ LET reference == references[current_pos + 1]
           after     == SimulateReference(simulator, reference, current_pos)
           resident  == DictKeys(simulator.page_table)
           remaining == DictKeys(after.page_table)
       IN  /\ simulator' = after
           /\ pc' = IF after.raised # "" THEN "exited" ELSE "simulate"
           /\ current_pos' = IF after.raised # "" THEN current_pos ELSE current_pos + 1
           /\ printed' = IF after.raised # ""
                          THEN Append(printed, <<"Error inesperado", after.raised>>)
                          ELSE printed
           /\ loads' = IF reference[1] \in remaining \ resident
                        THEN Append(loads, <<current_pos, reference[1]>>)
                        ELSE loads
           /\ evictions' = IF resident \ remaining # {}
                            THEN Append(evictions,
                                   [pos      |-> current_pos,
                                    victim   |-> CHOOSE v \in resident \ remaining : TRUE,
                                    resident |-> resident])
                            ELSE evictions
    /\ UNCHANGED <<args, ti, fi, pi, references, all_results, finished>>

\* lines 241-242: the loop of simulate is over
FinishRun ==
    /\ pc = "simulate"
    /\ current_pos = Len(references)
    /\ all_results' = Append(all_results, GetStats(simulator))
    /\ finished' = Append(finished, simulator)
    /\ LET next == Advance(ti, fi, pi)
       IN  /\ ti' = next.ti
           /\ fi' = next.fi
           /\ pi' = next.pi
           /\ pc' = next.pc
    /\ UNCHANGED <<args, simulator, references, current_pos, printed, loads,
                   evictions>>

\* main, lines 341-344, with the handler of lines 352-354: the report of a
\* non-empty list of results, a message otherwise
Report ==
    /\ pc = "returned"
    /\ LET out == IF Len(all_results) > 0 THEN PrintFinalReport(all_results)
                  ELSE [printed |-> <<<<"No se generaron resultados">>>>, raised |-> ""]
       IN  /\ printed' = printed \o out.printed
                           \o (IF out.raised # ""
                               THEN <<<<"Error inesperado", out.raised>>>> ELSE <<>>)
           /\ pc' = IF out.raised # "" THEN "exited" ELSE "done"
    /\ UNCHANGED <<args, ti, fi, pi, simulator, references, current_pos,
                   all_results, loads, evictions, finished>>

Next == OpenTrace \/ RemoveTrace \/ StartRun \/ SimulateStep \/ FinishRun \/ Report

----------------------------------------------------------------------------
(* Inputs.                                                                 *)

\* address tokens of the pages 0, 1, 2
Addresses == {<<"f","f","f">>, <<"1","0","0","0">>, <<"2","A","B","C">>}

\* well-formed lines: an address and R or W
Lines == Addresses \X {"R", "W"}

Selectors == {fifo, lru, opt, <<"F","I","F","O">>, <<"c","l","o","c","k">>}

TracesUpTo(lines, n) == UNION {[1..k -> lines] : k \in 0..n}

Missing == [exists |-> FALSE, lines |-> <<>>]

File(lines) == [exists |-> TRUE, lines |-> lines]

\* state of run_simulations when it is entered
Entered ==
    /\ ti = 1 /\ fi = 1 /\ pi = 1
    /\ pc = IF Len(trace_files) > 0 THEN "open" ELSE "returned"
    /\ simulator = MemorySimulator(0, <<>>)
    /\ references = <<>>
    /\ current_pos = 0
    /\ all_results = <<>>
    /\ printed = <<>>
    /\ loads = <<>>
    /\ evictions = <<>>
    /\ finished = <<>>

\* one run: one trace, one frame count, one policy selector
Init ==
    /\ trace_files = <<"a.trace">>
    /\ frame_counts \in {<<n>> : n \in 0..MaxFrames}
    /\ policies \in {<<p>> : p \in Selectors}
    /\ fs \in [{"a.trace"} -> {Missing} \cup {File(t) : t \in TracesUpTo(Lines, MaxLen)}]
    /\ Entered

Spec == Init /\ [][Next]_vars

\* address tokens of the pages 0, 1, 2, 3
BatchAddresses == Addresses \cup {<<"3","0","0","0">>}

\* the three policies on one all-read trace with one frame count
InitBatch ==
    /\ trace_files = <<"a.trace">>
    /\ frame_counts \in {<<n>> : n \in 1..MaxFrames}
    /\ policies = <<fifo, lru, opt>>
    /\ fs \in [{"a.trace"} ->
                {File(t) : t \in TracesUpTo(BatchAddresses \X {"R"}, BatchMaxLen)}]
    /\ Entered

SpecBatch == InitBatch /\ [][Next]_vars

\* the reference string 1,2,3,4,1,2,5,1,2,3,4,5 as reads
BeladyTrace ==
    LET address == [page \in 1..5 |-> <<HexDigits[page + 1], "0", "0", "0">>]
        pages   == <<1, 2, 3, 4, 1, 2, 5, 1, 2, 3, 4, 5>>
    IN  [i \in 1..Len(pages) |-> <<address[pages[i]], "R">>]

\* the three policies on the reference string with 1 to 4 frames
InitBelady ==
    /\ trace_files = <<"belady.trace">>
    /\ frame_counts = <<1, 2, 3, 4>>
    /\ policies = <<fifo, lru, opt>>
    /\ fs = [name \in {"belady.trace"} |-> File(BeladyTrace)]
    /\ Entered

SpecBelady == InitBelady /\ [][Next]_vars

----------------------------------------------------------------------------
(* Properties of one run.                                                  *)

Policies == {fifo, lru, opt}

\* the run has a valid configuration and has not been aborted
Replaying ==
    /\ pc # "exited"
    /\ simulator.frame_count >= 1
    /\ simulator.replacement_policy \in Policies

Resident == DictKeys(simulator.page_table)

Frames == DictKeys(simulator.frame_table)

\* C1: with frame_count >= 1 and a policy of fifo, lru, opt, after every
\* processed reference and at the end of the run every access is a hit or a
\* fault, and no more pages were replaced than faults occurred.
CountersBalance ==
    Replaying =>
        /\ simulator.hits + simulator.page_faults = simulator.total_accesses
        /\ simulator.replacements <= simulator.page_faults

\* a finished run that had hits, first loads and replacements
CountersBalanceWitness ==
    /\ Replaying /\ pc = "simulate" /\ current_pos = Len(references)
    /\ simulator.hits > 0
    /\ simulator.replacements > 0
    /\ simulator.replacements < simulator.page_faults

\* C2: with a valid configuration the number of resident pages never
\* exceeds frame_count.
ResidentWithinFrames ==
    (simulator.frame_count >= 1 /\ simulator.replacement_policy \in Policies) =>
        Len(simulator.page_table) <= simulator.frame_count

\* every frame is occupied and a page has been replaced
ResidentWithinFramesWitness ==
    /\ Replaying
    /\ Len(simulator.page_table) = simulator.frame_count
    /\ simulator.frame_count >= 2
    /\ simulator.replacements > 0

\* C3: with a valid configuration page_table and frame_table are mutual
\* inverses after every processed reference: each page -> frame has
\* frame -> that page, each frame entry is mapped back by page_table, and no
\* two resident pages share a frame.
TablesInverse ==
    Replaying =>
        /\ \A i \in 1..Len(simulator.page_table) :
              LET page == simulator.page_table[i][1]
                  frame == simulator.page_table[i][2]
              IN  /\ frame \in Frames
                  /\ DictGet(simulator.frame_table, frame).page_num = page
        /\ \A i \in 1..Len(simulator.frame_table) :
              LET frame == simulator.frame_table[i][1]
                  page == simulator.frame_table[i][2].page_num
              IN  /\ page \in Resident
                  /\ DictGet(simulator.page_table, page) = frame
        /\ \A i, j \in 1..Len(simulator.page_table) :
              simulator.page_table[i][2] = simulator.page_table[j][2] => i = j
        /\ \A i, j \in 1..Len(simulator.frame_table) :
              simulator.frame_table[i][1] = simulator.frame_table[j][1] => i = j

\* two frames in use, one of them refilled after an eviction
TablesInverseWitness ==
    /\ Replaying
    /\ Len(simulator.page_table) >= 2
    /\ simulator.replacements > 0

\* C4: with a valid configuration, after every processed reference
\* dirty_pages is exactly the set of resident pages whose frame is dirty;
\* an evicted page is not in it.
DirtySetConsistent ==
    Replaying =>
        simulator.dirty_pages =
            {page \in Resident :
                /\ DictGet(simulator.page_table, page) \in Frames
                /\ DictGet(simulator.frame_table,
                           DictGet(simulator.page_table, page)).dirty}

\* a dirty page was evicted, the page is not resident now, and another
\* resident page is dirty and a third is clean
DirtySetConsistentWitness ==
    /\ Replaying
    /\ simulator.disk_writes > 0
    /\ \E k \in 1..Len(evictions) : evictions[k].victim \notin Resident
    /\ simulator.dirty_pages # {}
    /\ simulator.dirty_pages # Resident

\* position of the load that began the residency of page at position pos
LoadedAt(page, pos) ==
    CHOOSE j \in {loads[k][1] : k \in {k \in 1..Len(loads) : loads[k][2] = page /\ loads[k][1] < pos}} :
        \A k \in 1..Len(loads) : (loads[k][2] = page /\ loads[k][1] < pos) => loads[k][1] <= j

\* position of the last reference to page before position pos
LastReferenced(page, pos) ==
    CHOOSE j \in {j \in 0..(pos - 1) : references[j + 1][1] = page} :
        \A k \in 0..(pos - 1) : references[k + 1][1] = page => k <= j

\* C5: under FIFO every victim is the earliest loaded of the pages resident
\* at its eviction, whatever was hit meanwhile, and the evicted pages are, in
\* order, the loaded pages in load order.
FifoEvictsInLoadOrder ==
    (Replaying /\ simulator.replacement_policy = fifo) =>
        /\ \A k \in 1..Len(evictions) :
              /\ \A page \in evictions[k].resident :
                    LoadedAt(evictions[k].victim, evictions[k].pos)
                        <= LoadedAt(page, evictions[k].pos)
              /\ k <= Len(loads)
              /\ evictions[k].victim = loads[k][2]
        /\ simulator.fifo_queue =
              [i \in 1..(Len(loads) - Len(evictions)) |-> loads[Len(evictions) + i][2]]

\* a FIFO victim that was hit after some other resident page was last used
FifoEvictsInLoadOrderWitness ==
    /\ Replaying /\ simulator.replacement_policy = fifo
    /\ \E k \in 1..Len(evictions) :
          \E page \in evictions[k].resident :
              LastReferenced(page, evictions[k].pos)
                  < LastReferenced(evictions[k].victim, evictions[k].pos)

\* C6: under LRU every victim is the resident page whose last reference
\* before the eviction is the oldest.
LruEvictsLeastRecent ==
    (Replaying /\ simulator.replacement_policy = lru) =>
        \A k \in 1..Len(evictions) :
            \A page \in evictions[k].resident :
                LastReferenced(evictions[k].victim, evictions[k].pos)
                    <= LastReferenced(page, evictions[k].pos)

\* an LRU victim that is not the earliest loaded resident page
LruEvictsLeastRecentWitness ==
    /\ Replaying /\ simulator.replacement_policy = lru
    /\ \E k \in 1..Len(evictions) :
          \E page \in evictions[k].resident :
              LoadedAt(page, evictions[k].pos)
                  < LoadedAt(evictions[k].victim, evictions[k].pos)

\* C9: a policy selector other than fifo, lru, opt (in any case) is rejected
\* before a reference is processed: under such a policy no access, fault or
\* replacement is ever counted and no page becomes resident.  (Stated for
\* frame_count >= 1, so that the frame count is not what ends the run.)
UnknownPolicyRejected ==
    (/\ pc \in {"simulate", "exited"}
     /\ simulator.frame_count >= 1
     /\ simulator.replacement_policy \notin Policies) =>
        /\ simulator.total_accesses = 0
        /\ simulator.page_faults = 0
        /\ simulator.replacements = 0
        /\ simulator.page_table = <<>>

\* C10: a frame_count <= 0 is rejected before a reference is processed:
\* with such a frame count no counter is incremented and the directory is
\* not touched.  (Stated for the policies fifo, lru, opt.)
NonPositiveFramesRejected ==
    (/\ pc \in {"simulate", "exited"}
     /\ simulator.frame_count <= 0
     /\ simulator.replacement_policy \in Policies) =>
        /\ simulator.total_accesses = 0
        /\ simulator.page_faults = 0
        /\ simulator.replacements = 0
        /\ simulator.page_table = <<>>
        /\ simulator.frame_table = <<>>

----------------------------------------------------------------------------
(* Properties of a batch of runs.                                          *)

\* the statistics reported for a policy and a frame count
Reported(policy, frames) ==
    {i \in 1..Len(all_results) :
        /\ DOMAIN all_results[i] # {}
        /\ all_results[i].policy = Upper(policy)
        /\ all_results[i].frames = frames}

\* the non-empty statistics reported for a policy
ReportedFor(policy) ==
    {i \in 1..Len(all_results) :
        /\ DOMAIN all_results[i] # {}
        /\ all_results[i].policy = Upper(policy)}

SameInput(i, j) ==
    /\ all_results[i].trace_file = all_results[j].trace_file
    /\ all_results[i].frames = all_results[j].frames

\* C7: on the same trace with the same frame_count >= 1 the OPT run reports
\* no more page faults than the FIFO run and than the LRU run.
OptFaultsAtMost ==
    pc = "returned" =>
        \A i \in ReportedFor(opt) :
            \A j \in ReportedFor(fifo) \cup ReportedFor(lru) :
                (SameInput(i, j) /\ all_results[i].frames >= 1) =>
                    all_results[i].page_faults <= all_results[j].page_faults

\* a batch where OPT reports fewer faults than FIFO and than LRU
OptFaultsAtMostWitness ==
    /\ pc = "returned"
    /\ \E i \in ReportedFor(opt) :
          \E j \in ReportedFor(fifo) :
              \E k \in ReportedFor(lru) :
                  /\ SameInput(i, j) /\ SameInput(i, k)
                  /\ all_results[i].page_faults < all_results[j].page_faults
                  /\ all_results[i].page_faults < all_results[k].page_faults

\* C8: on the reads 1,2,3,4,1,2,5,1,2,3,4,5 FIFO reports 9 page faults with
\* 3 frames and 10 with 4 frames, and OPT with 3 frames reports at most 9.
BeladyAnomaly ==
    pc = "returned" =>
        /\ \E i \in Reported(fifo, 3) : TRUE
        /\ \E i \in Reported(fifo, 4) : TRUE
        /\ \E i \in Reported(opt, 3) : TRUE
        /\ \A i \in Reported(fifo, 3) : all_results[i].page_faults = 9
        /\ \A i \in Reported(fifo, 4) : all_results[i].page_faults = 10
        /\ \A i \in Reported(opt, 3) : all_results[i].page_faults <= 9

\* the twelve runs of the batch have reported
BeladyAnomalyWitness ==
    /\ pc = "returned"
    /\ Len(all_results) = 12
    /\ \A i \in 1..12 : all_results[i].total_accesses = 12

----------------------------------------------------------------------------
(* Runs without references.                                                *)

ValidRun(s) == s.frame_count >= 1 /\ s.replacement_policy \in Policies

\* C11: a run with an empty reference sequence, frame_count >= 1 and a
\* policy of fifo, lru, opt completes and yields all-zero statistics: total
\* accesses, hits, faults, replacements, disk writes, reads, writes and the
\* derived rates are all zero.
EmptyRunAllZero ==
    \A i \in 1..Len(finished) :
        (ValidRun(finished[i]) /\ finished[i].total_accesses = 0) =>
            LET stats == all_results[i]
            IN  /\ DOMAIN stats # {}
                /\ stats.total_accesses = 0
                /\ stats.hits = 0
                /\ stats.page_faults = 0
                /\ stats.replacements = 0
                /\ stats.disk_writes = 0
                /\ stats.reads = 0
                /\ stats.writes = 0
                /\ stats.hit_rate.num = 0
                /\ stats.fault_rate.num = 0

----------------------------------------------------------------------------
(* Trace files with lines of every kind.                                   *)

\* lines as line.strip().split() sees them: accepted lines (one of them
\* with the prefix 0x, one with a sign, one with an operation that is
\* neither R nor W), a blank line, lines with one and with three tokens and
\* a line whose first token is not hexadecimal
ParseLines ==
    { <<<<"1","0","0","0">>, "R">>,
      <<<<"0","x","2","A","B","C">>, "W">>,
      <<<<"-","f","f","f">>, "W">>,
      <<<<"f","f","f">>, "X">>,
      <<>>,
      <<<<"1","0","0","0">>>>,
      <<<<"1","0","0","0">>, "R", "W">>,
      <<<<"1","0","g","0">>, "R">>,
      <<<<"0","x">>, "W">> }

\* one run with one frame on a trace of such lines
InitParse ==
    /\ trace_files = <<"a.trace">>
    /\ frame_counts = <<1>>
    /\ policies \in {<<p>> : p \in {fifo, lru, opt}}
    /\ fs \in [{"a.trace"} -> {File(t) : t \in TracesUpTo(ParseLines, ParseMaxLen)}]
    /\ Entered

SpecParse == InitParse /\ [][Next]_vars

\* the lines of the trace of the current run
TraceLines == fs[trace_files[ti]].lines

\* the lines with exactly two tokens whose first token is hexadecimal
TwoTokenHexLines ==
    SelectSeq(TraceLines, LAMBDA parts : Len(parts) = 2 /\ IsHex(parts[1]))

\* C12: load_trace_file turns the lines of the file into references in
\* file order, one per line with exactly two tokens and a hexadecimal first
\* token; every other line is skipped without an error and is not counted:
\* total_accesses and the frequency table count only the accepted lines.
OnlyTwoTokenHexLinesLoaded ==
    /\ (pc = "exited" /\ simulator.raised = "SystemExit") =>
            ~fs[trace_files[ti]].exists
    /\ (pc = "simulate" /\ fs[trace_files[ti]].exists) =>
        /\ references = [i \in 1..Len(TwoTokenHexLines) |->
                            <<PageOf(HexNumber(TwoTokenHexLines[i][1])),
                              TwoTokenHexLines[i][2]>>]
        /\ DictKeys(simulator.page_access_frequency)
              = {references[i][1] : i \in 1..Len(references)}
        /\ \A page \in DictKeys(simulator.page_access_frequency) :
              DictGet(simulator.page_access_frequency, page)
                 = Cardinality({i \in 1..Len(references) : references[i][1] = page})
        /\ simulator.total_accesses <= Len(TwoTokenHexLines)
        /\ current_pos = Len(references) =>
              simulator.total_accesses = Len(TwoTokenHexLines)

\* a finished run over a file of three lines of which one was accepted, one
\* was skipped for its number of tokens and one for its first token
OnlyTwoTokenHexLinesLoadedWitness ==
    /\ pc = "simulate" /\ current_pos = Len(references)
    /\ Len(TraceLines) = 3
    /\ simulator.total_accesses = 1
    /\ \E i \in 1..3 : Len(TraceLines[i]) # 2
    /\ \E i \in 1..3 : Len(TraceLines[i]) = 2 /\ ~IsHex(TraceLines[i][1])

----------------------------------------------------------------------------
(* Repeated configurations in one batch.                                   *)

\* a batch that runs a policy, then another one, then the first one again
InitRepeat ==
    /\ trace_files = <<"a.trace">>
    /\ frame_counts \in {<<n>> : n \in 1..MaxFrames}
    /\ policies \in {<<p, q, p>> : p, q \in Policies} \ {<<p, p, p>> : p \in Policies}
    /\ fs \in [{"a.trace"} -> {File(t) : t \in TracesUpTo(Lines, RepeatMaxLen)}]
    /\ Entered

SpecRepeat == InitRepeat /\ [][Next]_vars

SameConfiguration(s, t) ==
    /\ s.trace_file = t.trace_file
    /\ s.frame_count = t.frame_count
    /\ s.replacement_policy = t.replacement_policy

\* C13: two runs of a batch with the same trace, frame count and policy
\* produce identical counters and identical final directory contents, also
\* when runs with other configurations come before or between them.
RepeatedRunsAgree ==
    \A i, j \in 1..Len(finished) :
        SameConfiguration(finished[i], finished[j]) =>
            /\ finished[i].total_accesses = finished[j].total_accesses
            /\ finished[i].hits = finished[j].hits
            /\ finished[i].page_faults = finished[j].page_faults
            /\ finished[i].replacements = finished[j].replacements
            /\ finished[i].disk_writes = finished[j].disk_writes
            /\ finished[i].operation_stats = finished[j].operation_stats
            /\ finished[i].page_table = finished[j].page_table
            /\ finished[i].frame_table = finished[j].frame_table
            /\ finished[i].dirty_pages = finished[j].dirty_pages
            /\ all_results[i] = all_results[j]

\* the first and the third run had the same configuration, the run between
\* them another policy; pages were replaced and a dirty page stayed resident
RepeatedRunsAgreeWitness ==
    /\ pc = "returned"
    /\ Len(finished) = 3
    /\ SameConfiguration(finished[1], finished[3])
    /\ ~SameConfiguration(finished[1], finished[2])
    /\ finished[3].replacements > 0
    /\ finished[3].hits > 0
    /\ finished[3].dirty_pages # {}

----------------------------------------------------------------------------
(* Batches of two traces.                                                  *)

\* address tokens of the pages 0 and 1
TraceAddresses == {<<"f","f","f">>, <<"1","0","0","0">>}

\* two traces, each missing or a file of well-formed lines (possibly none),
\* run with one frame under fifo and under opt
InitTraces ==
    /\ trace_files = <<"a.trace", "b.trace">>
    /\ frame_counts = <<1>>
    /\ policies = <<fifo, opt>>
    /\ fs \in [{"a.trace", "b.trace"} ->
                {Missing} \cup {File(t) : t \in TracesUpTo(TraceAddresses \X {"R", "W"},
                                                         TracesMaxLen)}]
    /\ Entered

SpecTraces == InitTraces /\ [][Next]_vars

\* the trace of every run the batch has to make, in input order: the traces
\* that can be opened, once per frame count and policy
RECURSIVE RunsOf(_)
RunsOf(names) ==
    IF Len(names) = 0 THEN <<>>
    ELSE (IF fs[names[1]].exists
          THEN [k \in 1..(Len(frame_counts) * Len(policies)) |-> names[1]]
          ELSE <<>>) \o RunsOf(Tail(names))

\* C14: when a named trace cannot be opened, at the driver's first open or
\* at the open of load_trace_file, only that trace is abandoned: the failure
\* is reported, the process is not ended, and every remaining trace is still
\* simulated, its results appearing in the returned list in input order.
UnopenableTraceAbandonedAlone ==
    /\ ~(pc = "exited" /\ simulator.raised = "SystemExit")
    /\ pc = "returned" =>
          /\ [i \in 1..Len(finished) |-> finished[i].trace_file] = RunsOf(trace_files)
          /\ \A t \in 1..Len(trace_files) :
                ~fs[trace_files[t]].exists =>
                    \E k \in 2..Len(printed) :
                        /\ printed[k - 1] = <<"Procesando archivo", trace_files[t]>>
                        /\ printed[k] = <<"Error: Archivo no encontrado">>

----------------------------------------------------------------------------
(* The OPT policy.                                                         *)

\* the 0-based positions of the trace at which page is referenced
PositionsOf(page) == {j \in 0..(Len(references) - 1) : references[j + 1][1] = page}

\* the smallest position of a set, None for the empty set
Earliest(positions) ==
    IF positions = {} THEN None
    ELSE Some(CHOOSE j \in positions : \A k \in positions : j <= k)

\* C15: under OPT, when the reference at position i is decided, next_ref of
\* every page of the trace is the smallest position after i at which the
\* page is referenced (None if there is none) when the page was referenced
\* at or before i, and the position of its first reference otherwise.
OptNextRefExact ==
    (Replaying /\ simulator.replacement_policy = opt
       /\ pc = "simulate" /\ current_pos >= 1) =>
        LET i == current_pos - 1
        IN  \A page \in {references[j][1] : j \in 1..Len(references)} :
                /\ DictHas(simulator.next_ref, page)
                /\ DictGet(simulator.next_ref, page) =
                      IF \E j \in PositionsOf(page) : j <= i
                      THEN Earliest({j \in PositionsOf(page) : j > i})
                      ELSE Earliest(PositionsOf(page))

\* after two references one page has no further reference, one referenced
\* page has a later reference and one page has not been referenced yet
OptNextRefExactWitness ==
    /\ Replaying /\ simulator.replacement_policy = opt
    /\ pc = "simulate" /\ current_pos = 2
    /\ \E page \in DictKeys(simulator.next_ref) :
          DictGet(simulator.next_ref, page) = None
    /\ \E page \in DictKeys(simulator.next_ref) :
          /\ \E j \in PositionsOf(page) : j < current_pos
          /\ DictGet(simulator.next_ref, page) # None
    /\ \E page \in DictKeys(simulator.next_ref) :
          \A j \in PositionsOf(page) : j >= current_pos

\* the next position after pos at which page is referenced, None if none
NextUse(page, pos) == Earliest({j \in PositionsOf(page) : j > pos})

\* the resident pages of an eviction that are never referenced after it
NeverAgain(e) == {page \in e.resident : NextUse(page, e.pos) = None}

\* C16: under OPT, at every eviction at position i: if some resident page is
\* never referenced after i the victim is the first such page in directory
\* order, that is the one loaded earliest among them in its current
\* residency; otherwise the victim is the resident page whose next reference
\* after i is at the largest position.
OptEvictsFarthest ==
    (Replaying /\ simulator.replacement_policy = opt) =>
        \A k \in 1..Len(evictions) :
            LET e == evictions[k]
            IN  IF NeverAgain(e) # {}
                THEN /\ e.victim \in NeverAgain(e)
                     /\ \A page \in NeverAgain(e) :
                           LoadedAt(e.victim, e.pos) <= LoadedAt(page, e.pos)
                ELSE \A page \in e.resident :
                           NextUse(page, e.pos)[1] <= NextUse(e.victim, e.pos)[1]

\* a run with an eviction among pages that are all referenced again, whose
\* victim is not the earliest loaded
OptEvictsFarthestWitness ==
    /\ Replaying /\ simulator.replacement_policy = opt
    /\ \E k \in 1..Len(evictions) :
          LET e == evictions[k]
          IN  /\ NeverAgain(e) = {}
              /\ \E page \in e.resident :
                    LoadedAt(page, e.pos) < LoadedAt(e.victim, e.pos)

----------------------------------------------------------------------------
(* Write-backs and frames.                                                 *)

\* the victim of eviction e was written during the residency e ended
WrittenInResidency(e) ==
    \E j \in LoadedAt(e.victim, e.pos)..(e.pos - 1) : references[j + 1] = <<e.victim, "W">>

\* C17: disk_writes is incremented exactly at the evictions whose victim
\* received a write during the residency being ended and at no other time:
\* a page that was only read never causes a disk write and a dirty page
\* still resident when the run ends is not counted.
DiskWritesCountDirtyEvictions ==
    Replaying =>
        simulator.disk_writes =
            Cardinality({k \in 1..Len(evictions) : WrittenInResidency(evictions[k])})

\* a finished run that evicted a page written only by a hit, evicted a page
\* that was only read and ended with a dirty page still resident
DiskWritesCountDirtyEvictionsWitness ==
    /\ Replaying /\ pc = "simulate" /\ current_pos = Len(references)
    /\ simulator.dirty_pages # {}
    /\ \E k \in 1..Len(evictions) : ~WrittenInResidency(evictions[k])
    /\ \E k \in 1..Len(evictions) :
          /\ WrittenInResidency(evictions[k])
          /\ references[LoadedAt(evictions[k].victim, evictions[k].pos) + 1][2] = "R"

\* C18: a fault evicts only when every frame is occupied and otherwise takes
\* the lowest unused frame number: after every processed reference the
\* occupied frames are exactly 0..n-1, with n = min(page_faults,
\* frame_count) resident pages, and replacements = page_faults - n.
FramesFilledInOrder ==
    Replaying =>
        LET n == IF simulator.page_faults < simulator.frame_count
                 THEN simulator.page_faults ELSE simulator.frame_count
        IN  /\ Cardinality(Resident) = n
            /\ Len(simulator.page_table) = n
            /\ {simulator.page_table[i][2] : i \in 1..Len(simulator.page_table)} = 0..(n - 1)
            /\ Frames = 0..(n - 1)
            /\ simulator.replacements = simulator.page_faults - n
            /\ \A k \in 1..Len(evictions) :
                  Cardinality(evictions[k].resident) = simulator.frame_count

\* two frames: the second fault took frame 1 without an eviction and later
\* faults replaced pages
FramesFilledInOrderWitness ==
    /\ Replaying /\ simulator.frame_count = 2
    /\ Len(loads) >= 3
    /\ Len(evictions) = Len(loads) - 2
    /\ evictions[1].pos > loads[2][1]
    /\ simulator.hits > 0

----------------------------------------------------------------------------
(* The report of a batch.                                                  *)

\* the batch had a run that made no access
HadZeroAccessRun == \E i \in 1..Len(finished) : finished[i].total_accesses = 0

\* C19: a run with zero accesses is not fatal for the batch: run_simulations
\* over a batch that includes a run whose trace yields no reference,
\* followed by print_final_report, completes without an error and reports
\* the other runs.
ZeroAccessRunNotFatal ==
    HadZeroAccessRun =>
        /\ pc = "exited" => simulator.raised # ""
        /\ pc = "done" =>
              \A i \in 1..Len(all_results) :
                  DOMAIN all_results[i] # {} =>
                      \E k \in 1..Len(printed) : printed[k] = TableRow(all_results[i])

----------------------------------------------------------------------------
(* Operations of the loaded references.                                    *)

\* C20: every reference that load_trace_file emits carries an operation in
\* {R, W}, so the update of the per-operation counter is defined for every
\* emitted reference, after every processed reference reads + writes equals
\* total_accesses, and no accepted trace line makes a run fail part-way.
EmittedOperationsKnown ==
    /\ \A i \in 1..Len(references) : references[i][2] \in {"R", "W"}
    /\ DictGet(simulator.operation_stats, "R") + DictGet(simulator.operation_stats, "W")
          = simulator.total_accesses
    /\ simulator.raised # "KeyError"

====
